---------------------------- MODULE Spec2Model ----------------------------
(***************************************************************************)
(* A model of the metric classes of src/src/index.ts (Metric, ValueMetric,  *)
(* Counter, Gauge, Histogram, Summary, Untyped).                            *)
(*                                                                         *)
(* One metric object is constructed per behaviour; Init is the state right  *)
(* after its constructor ran, and every action is one method call on it.    *)
(*                                                                         *)
(* JavaScript values are tagged records [t, n]:                             *)
(*   t = "num"  a finite number n (integers only, so that the float         *)
(*              arithmetic of the code is exact);                           *)
(*   t = "nan", "inf", "ninf"   NaN, +Infinity, -Infinity;                  *)
(*   t = "str"  a non-numeric string such as 'string' (its text is not      *)
(*              modelled);                                                  *)
(*   t = "undef"  undefined.                                                *)
(***************************************************************************)
EXTENDS Integers, Sequences, FiniteSets, TLC

\* ------------------------------------------------------------------ bounds
\* finite thresholds are 1..MaxNum, finite observed values 1..MaxNum+1
MaxNum == 2
\* length of the bucket list handed to the Histogram constructor
MaxBuckets == 2
\* number of accepted observations since construction or the last reset
MaxObs == 3
\* length of the quantile list handed to the Summary constructor
MaxQuantiles == 2
\* number of entries the reader of a Counter or Gauge returns
MaxEntries == 2
\* Date.now() reads 1..MaxNow
MaxNow == 2
\* number of metrics handed to Metric.concat
MaxMetrics == 2
\* length of the strings handed to Metric.cleanText and to a constructor
MaxNameLen == 2
\* the caller's variable behind a reader takes the values 0..MaxHits
MaxHits == 2

\* ------------------------------------------------------ JavaScript values
Num(i) == [t |-> "num", n |-> i]
NaN == [t |-> "nan", n |-> 0]
PosInf == [t |-> "inf", n |-> 0]
NegInf == [t |-> "ninf", n |-> 0]
Str == [t |-> "str", n |-> 0]
Undefined == [t |-> "undef", n |-> 0]

\* typeof v === 'number'
TypeofNumber(v) == v.t \in {"num", "nan", "inf", "ninf"}

\* isNaN(v): ToNumber(v) is NaN; ToNumber of a non-numeric string is NaN
IsNaN(v) == v.t \in {"nan", "str", "undef"}

\* a finite real number
IsFinite(v) == v.t = "num"

\* a + b as `sum += value` computes it: string concatenation as soon as one
\* side is a string, IEEE-754 addition otherwise
JsAdd(a, b) ==
    IF a.t = "str" \/ b.t = "str" THEN Str
    ELSE IF a.t \in {"nan", "undef"} \/ b.t \in {"nan", "undef"} THEN NaN
    ELSE IF a.t = "inf" THEN (IF b.t = "ninf" THEN NaN ELSE PosInf)
    ELSE IF a.t = "ninf" THEN (IF b.t = "inf" THEN NaN ELSE NegInf)
    ELSE IF b.t \in {"inf", "ninf"} THEN b
    ELSE Num(a.n + b.n)

\* a <= b on numbers; a non-numeric string converts to NaN and compares false
JsLe(a, b) ==
    IF IsNaN(a) \/ IsNaN(b) THEN FALSE
    ELSE IF a.t = "ninf" \/ b.t = "inf" THEN TRUE
    ELSE IF a.t = "inf" \/ b.t = "ninf" THEN FALSE
    ELSE a.n <= b.n

\* value * quantile, quantile a positive finite number given in percent; the
\* finite product is therefore in hundredths
JsMul(a, q) ==
    IF IsNaN(a) THEN NaN
    ELSE IF a.t \in {"inf", "ninf"} THEN a
    ELSE Num(a.n * q)

Range(s) == {s[i] : i \in 1..Len(s)}

\* ------------------------------------------------------------------ state
VARIABLES
    type,          \* Metric.type
    buckets,       \* Histogram._buckets
    bucketCounts,  \* Histogram._bucketCounts, keyed by threshold
    quantiles,     \* Summary._quantiles: quantile -> estimate
    sum,           \* Histogram._sum / Summary._sum
    count,         \* Histogram._count / Summary._count
    call,          \* the last call: [op, arg, err, pre], pre = count before it
    observed,      \* values accepted since construction or the last reset
    direct,        \* TRUE once push was called directly (not through observe)
    name,          \* Metric.name, a sequence of characters
    description,   \* Metric.description: [present, text]
    labels,        \* Metric.labels: <<key, value>> pairs in insertion order
    reader,        \* what config.reader() of a Counter or Gauge returns
    value,         \* Untyped._value: <<value, timestamp>>
    out,           \* what the last stringify() settled to: [err, values, text]
    hits,          \* the caller's state behind the reader (as `hits` in the example)
    console,       \* what console.warn was last called with
    reads,         \* how often the last stringify() called config.reader
    input,         \* the argument of the last Metric.cleanText call
    cleaned,       \* what that call returned
    args,          \* the arguments of the Metric.concat call
    promises,      \* the promise of each metric's stringify(), in metrics order
    order,         \* the metrics in the order their promises settled
    result,        \* the promise Metric.concat returned
    before         \* the observations the histogram held when concat was called

\* the fields of the Histogram and Summary state machine
hvars == <<type, buckets, bucketCounts, quantiles, sum, count, call, observed, direct>>
\* the identity of the metric and what rendering reads and returns
rvars == <<name, description, labels, reader, value, out>>
\* the caller's state and the console
evars == <<hits, console, reads>>
\* Metric.cleanText
tvars == <<input, cleaned>>
\* Metric.concat
cvars == <<args, promises, order, result, before>>
vars == <<hvars, rvars, evars, tvars, cvars>>

NoError == "none"
InvalidHistogramValue == "Invalid histogram value"
InvalidSummaryValue == "Invalid summary value"
NoQuantile == "Summary must have at least one quantile"

\* the values handed to observe and push
Values == {Num(i) : i \in 1..(MaxNum + 1)} \cup {NaN, PosInf, NegInf, Str}

\* the thresholds a caller may list, +Infinity included
Thresholds == {Num(i) : i \in 1..MaxNum} \cup {PosInf}

SeqsUpTo(S, n) == UNION {[1..k -> S] : k \in 0..n}

\* ------------------------------------------------------------- Histogram
\* the comparator (a, b) => a - b is positive: a sorts after b
\* (Infinity - Infinity is NaN, which sort treats as 0)
SortsAfter(a, b) ==
    IF a.t = "inf" THEN b.t # "inf"
    ELSE IF b.t = "inf" THEN FALSE
    ELSE a.n > b.n

RECURSIVE InsertSorted(_, _)
InsertSorted(x, s) ==
    IF s = <<>> THEN <<x>>
    ELSE IF SortsAfter(s[1], x) THEN <<x>> \o s
    ELSE <<s[1]>> \o InsertSorted(x, Tail(s))

\* Array.prototype.sort((a, b) => a - b)
RECURSIVE SortAscending(_)
SortAscending(s) ==
    IF s = <<>> THEN <<>>
    ELSE InsertSorted(s[Len(s)], SortAscending(SubSeq(s, 1, Len(s) - 1)))

\* this._buckets = [...buckets, Infinity]
ConstructBuckets(configBuckets) == Append(SortAscending(configBuckets), PosInf)

\* this._buckets.forEach((bucket) => (this._bucketCounts[bucket] = 0))
ResetCounts(bs, counts) ==
    [b \in (DOMAIN counts) \cup Range(bs) |-> IF b \in Range(bs) THEN 0 ELSE counts[b]]

\* for (const bucket of this._buckets) if (value <= bucket) this._bucketCounts[bucket]++
RECURSIVE PushCounts(_, _, _)
PushCounts(bs, counts, v) ==
    IF bs = <<>> THEN counts
    ELSE PushCounts(Tail(bs),
                    IF JsLe(v, bs[1])
                    THEN [counts EXCEPT ![bs[1]] = @ + 1]
                    ELSE counts,
                    v)

\* the check with the isNaN test left out
InvalidValueTypeOnly(v) == ~TypeofNumber(v)

\* typeof value !== 'number' || isNaN(value)
InvalidValue(v) == ~TypeofNumber(v) \/ IsNaN(v)

\* the outcome of Histogram.push(value) in the current state
HistogramPushResult(v) ==
    [err |-> NoError,
     bucketCounts |-> PushCounts(buckets, bucketCounts, v),
     quantiles |-> quantiles,
     sum |-> JsAdd(sum, v),
     count |-> count + 1]

\* the outcome of a call that throws: nothing is assigned
Thrown(msg) ==
    [err |-> msg, bucketCounts |-> bucketCounts, quantiles |-> quantiles,
     sum |-> sum, count |-> count]

\* the outcome of Histogram.observe(value) in the current state
HistogramObserveResult(v) ==
    IF InvalidValue(v) THEN Thrown(InvalidHistogramValue)
    ELSE HistogramPushResult(v)

\* a reset that forgets to zero the sum
HistogramResetKeepsSum ==
    [err |-> NoError,
     bucketCounts |-> ResetCounts(buckets, bucketCounts),
     quantiles |-> quantiles,
     sum |-> sum,
     count |-> 0]

\* the outcome of Histogram.reset() in the current state
HistogramResetResult ==
    [err |-> NoError,
     bucketCounts |-> ResetCounts(buckets, bucketCounts),
     quantiles |-> quantiles,
     sum |-> Num(0),
     count |-> 0]

\* --------------------------------------------------------------- Summary
\* the quantiles a caller may list, in percent
QuantileChoices == {50, 90}

\* config.calculate of the test suite: (value, quantile) => value * quantile
Calculate(v, q) == JsMul(v, q)

\* new Map(config.quantiles.map((q) => [q, 0]))
ConstructQuantiles(configQuantiles) == [q \in Range(configQuantiles) |-> Num(0)]

\* a push that adds the new estimate to the stored one
SummaryPushAccumulates(v) ==
    [err |-> NoError,
     bucketCounts |-> bucketCounts,
     quantiles |-> [q \in DOMAIN quantiles |-> JsAdd(quantiles[q], Calculate(v, q))],
     sum |-> JsAdd(sum, v),
     count |-> count + 1]

\* the outcome of Summary.push(value) in the current state
SummaryPushResult(v) ==
    [err |-> NoError,
     bucketCounts |-> bucketCounts,
     quantiles |-> [q \in DOMAIN quantiles |-> Calculate(v, q)],
     sum |-> JsAdd(sum, v),
     count |-> count + 1]

\* the outcome of Summary.observe(value) in the current state
SummaryObserveResult(v) ==
    IF InvalidValue(v) THEN Thrown(InvalidSummaryValue)
    ELSE SummaryPushResult(v)

\* ---------------------------------------------------- Metric (base class)
\* String.prototype.replaceAll(ch, by): by is a sequence of 0 or 1 characters
RECURSIVE ReplaceAll(_, _, _)
ReplaceAll(s, ch, by) ==
    IF s = <<>> THEN <<>>
    ELSE (IF s[1] = ch THEN by ELSE <<s[1]>>) \o ReplaceAll(Tail(s), ch, by)

\* a cleanText that turns '/' into '-'
CleanTextSlashToHyphen(s) ==
    ReplaceAll(ReplaceAll(ReplaceAll(ReplaceAll(ReplaceAll(s,
        "-", <<>>), "/", <<"-">>), " ", <<"_">>), "(", <<>>), ")", <<>>)

\* Metric.cleanText on a string that is present
CleanText(s) ==
    ReplaceAll(ReplaceAll(ReplaceAll(ReplaceAll(ReplaceAll(s,
        "-", <<>>), "/", <<"_">>), " ", <<"_">>), "(", <<>>), ")", <<>>)

\* this.name = Metric.cleanText(name) || ''
ConstructName(raw) == CleanText(raw)

\* `${v}`, String(v)
JsString(v) ==
    CASE v.t = "num" -> ToString(v.n)
      [] v.t = "nan" -> "NaN"
      [] v.t = "inf" -> "Infinity"
      [] v.t = "ninf" -> "-Infinity"
      [] v.t = "str" -> "string"
      [] OTHER -> "undefined"

\* the keys of a label object
Keys(m) == {m[i][1] : i \in 1..Len(m)}

\* the value of key k in label object m
Get(m, k) == m[CHOOSE i \in 1..Len(m) : m[i][1] = k][2]

\* m[k] = v: an existing key keeps its place, a new key goes last
Put(m, k, v) ==
    IF k \in Keys(m)
    THEN [i \in 1..Len(m) |-> IF m[i][1] = k THEN <<k, v>> ELSE m[i]]
    ELSE Append(m, <<k, v>>)

\* { ...a, ...b }
RECURSIVE Spread(_, _)
Spread(a, b) ==
    IF b = <<>> THEN a ELSE Spread(Put(a, b[1][1], b[1][2]), Tail(b))

\* Metric.labelString: '' for no label, else the key="value" pairs in
\* insertion order (kept as pairs; the values are strings already)
LabelString(m) == m

\* one line of exposition text, its newline included
Line(k, suffix, text, lbls, val, ts) ==
    [k |-> k, name |-> name, suffix |-> suffix, text |-> text,
     labels |-> LabelString(lbls), value |-> val, ts |-> ts]

\* # HELP <name> <description>
HelpLine == Line("help", "", description.text, <<>>, "", "")
\* # TYPE <name> <type>
TypeLine == Line("type", "", type, <<>>, "", "")
\* <name><suffix>{labels} value [timestamp]
SampleLine(suffix, lbls, val, ts) == Line("sample", suffix, "", lbls, val, ts)
\* an empty line
BlankLine == [k |-> "blank", name |-> <<>>, suffix |-> "", text |-> "",
              labels |-> <<>>, value |-> "", ts |-> ""]

\* a header that writes HELP whenever there is a description
GenerateHeaderAnyName ==
    (IF description.present /\ description.text # "" THEN <<HelpLine>> ELSE <<>>)
    \o (IF type # "untyped" THEN <<TypeLine>> ELSE <<>>)

\* Metric.generateHeader
GenerateHeader ==
    (IF name # <<>> /\ description.present /\ description.text # ""
     THEN <<HelpLine>> ELSE <<>>)
    \o (IF type # "untyped" THEN <<TypeLine>> ELSE <<>>)

\* --------------------------------------------- ValueMetric (Counter, Gauge)
\* the elements of the arrays a reader returns: a number (or undefined), or
\* a label object
ValElem(v) == [t |-> "val", v |-> v, l |-> <<>>]
LabelsElem(l) == [t |-> "labels", v |-> Undefined, l |-> l]

\* the entries a reader returns
NumberEntry(v) == [k |-> "number", v |-> v, items |-> <<>>]
ArrayEntry(items) == [k |-> "array", v |-> Undefined, items |-> items]
StringEntry == [k |-> "string", v |-> Str, items |-> <<>>]
ObjectEntry == [k |-> "object", v |-> Undefined, items |-> <<>>]

UnexpectedValueFormat == "Unexpected value format"

\* typeof x === 'number' on an array element
ElemIsNumber(x) == x.t = "val" /\ TypeofNumber(x.v)

\* a normalizer that takes the second of two elements for a timestamp always
NormalizeSecondIsTimestamp(e, now) ==
    IF e.k = "number"
    THEN [err |-> NoError, val |-> <<ValElem(e.v), LabelsElem(<<>>), ValElem(Num(now))>>]
    ELSE IF e.k = "array"
    THEN IF Len(e.items) = 2
         THEN [err |-> NoError, val |-> <<e.items[1], LabelsElem(<<>>), e.items[2]>>]
         ELSE [err |-> NoError, val |-> e.items]
    ELSE [err |-> UnexpectedValueFormat, val |-> <<>>]

\* the callback of results.map in ValueMetric._reader, now = Date.now()
Normalize(e, now) ==
    IF e.k = "number"
    THEN [err |-> NoError, val |-> <<ValElem(e.v), LabelsElem(<<>>), ValElem(Num(now))>>]
    ELSE IF e.k = "array"
    THEN IF Len(e.items) = 2
         THEN IF ElemIsNumber(e.items[2])
              THEN [err |-> NoError, val |-> <<e.items[1], LabelsElem(<<>>), e.items[2]>>]
              ELSE [err |-> NoError, val |-> <<e.items[1], e.items[2], ValElem(Num(now))>>]
         ELSE [err |-> NoError, val |-> e.items]
    ELSE [err |-> UnexpectedValueFormat, val |-> <<>>]

\* ValueMetric._reader: results.map(...); the first throw rejects the whole
ReadValues(now) ==
    IF \E i \in 1..Len(reader) : Normalize(reader[i], now).err # NoError
    THEN [err |-> UnexpectedValueFormat, values |-> <<>>]
    ELSE [err |-> NoError,
          values |-> [i \in 1..Len(reader) |-> Normalize(reader[i], now).val]]

\* const [val, valLabels, ts] = array: a missing element is undefined
At(arr, i) == IF i <= Len(arr) THEN arr[i] ELSE ValElem(Undefined)

\* `${x}` on an array element
ElemString(x) == IF x.t = "labels" THEN "[object Object]" ELSE JsString(x.v)

\* a merge in which the default labels win
MergeLabelsDefaultsWin(defaults, valLabels) ==
    Spread(IF valLabels.t = "labels" THEN valLabels.l ELSE <<>>, defaults)

\* { ...this.labels, ...valLabels }; spreading undefined or a number adds nothing
MergeLabels(defaults, valLabels) ==
    Spread(defaults, IF valLabels.t = "labels" THEN valLabels.l ELSE <<>>)

\* ValueMetric.valueString on the normalized values
ValueString(values) ==
    [i \in 1..Len(values) |->
        SampleLine("", MergeLabels(labels, At(values[i], 2)),
                   ElemString(At(values[i], 1)), ElemString(At(values[i], 3)))]

\* a stringify that keeps the first text it rendered
ValueMetricStringifyCached(now) ==
    IF out.text # <<>> THEN out
    ELSE IF ReadValues(now).err # NoError
    THEN [err |-> ReadValues(now).err, values |-> <<>>, text |-> <<>>]
    ELSE [err |-> NoError, values |-> ReadValues(now).values,
          text |-> GenerateHeader \o ValueString(ReadValues(now).values) \o <<BlankLine>>]

\* ValueMetric.stringify, now = Date.now()
ValueMetricStringify(now) ==
    IF ReadValues(now).err # NoError
    THEN [err |-> ReadValues(now).err, values |-> <<>>, text |-> <<>>]
    ELSE [err |-> NoError, values |-> ReadValues(now).values,
          text |-> GenerateHeader \o ValueString(ReadValues(now).values) \o <<BlankLine>>]

\* ------------------------------------------- rendering of the other kinds
\* Histogram.bucketString
BucketString ==
    [i \in 1..Len(buckets) |->
        SampleLine("_bucket",
                   Spread(labels, << <<"le", IF buckets[i] = PosInf THEN "+Inf"
                                             ELSE JsString(buckets[i])>> >>),
                   ToString(bucketCounts[buckets[i]]), "")]
    \o <<SampleLine("_sum", <<>>, JsString(sum), ""),
         SampleLine("_count", <<>>, ToString(count), "")>>

\* the quantiles of a summary in ascending order
RECURSIVE AscendingQuantiles(_)
AscendingQuantiles(qs) ==
    IF qs = {} THEN <<>>
    ELSE LET q == CHOOSE x \in qs : \A y \in qs : x <= y
         IN  <<q>> \o AscendingQuantiles(qs \ {q})

\* Summary.summaryString (quantiles in percent, estimates in hundredths)
SummaryString ==
    LET qs == AscendingQuantiles(DOMAIN quantiles)
    IN  [i \in 1..Len(qs) |->
            SampleLine("", Spread(labels, << <<"quantile", ToString(qs[i])>> >>),
                       JsString(quantiles[qs[i]]), "")]
        \o <<SampleLine("_sum", <<>>, JsString(sum), ""),
             SampleLine("_count", <<>>, ToString(count), "")>>

\* Untyped.valueString
UntypedValueString ==
    <<SampleLine("", labels, JsString(value[1]), JsString(value[2]))>>

\* stringify() of the metric, now = Date.now()
StringifyResult(now) ==
    CASE type \in {"counter", "gauge"} -> ValueMetricStringify(now)
      [] type = "histogram" ->
            [err |-> NoError, values |-> <<>>, text |-> GenerateHeader \o BucketString]
      [] type = "summary" ->
            [err |-> NoError, values |-> <<>>, text |-> GenerateHeader \o SummaryString]
      [] OTHER ->
            [err |-> NoError, values |-> <<>>,
             text |-> GenerateHeader \o UntypedValueString \o <<BlankLine>>]

\* ------------------------------------------------------------------ Init
EmptyMap == [x \in {} |-> 0]

NoDescription == [present |-> FALSE, text |-> ""]
NoOutput == [err |-> NoError, values |-> <<>>, text |-> <<>>]
NewCall(err) == [op |-> "new", arg |-> Undefined, err |-> err, pre |-> 0]

\* an absent (undefined) string
Absent == [present |-> FALSE, text |-> <<>>]
\* the promise of a call not made
NoPromise == [state |-> "none", err |-> NoError, text |-> <<>>]

\* nothing changed behind the reader, nothing was written to the console
NoEnvironment == hits = 0 /\ console = <<>> /\ reads = 0
\* Metric.cleanText was not called
NoCleanText == input = Absent /\ cleaned = Absent
\* Metric.concat was not called
NoConcat ==
    /\ args = <<>> /\ promises = <<>> /\ order = <<>> /\ result = NoPromise
    /\ before = <<>>

\* new Histogram({name, buckets})
InitHistogram ==
    \E configBuckets \in SeqsUpTo(Thresholds, MaxBuckets) :
        /\ type = "histogram"
        /\ buckets = ConstructBuckets(configBuckets)
        /\ bucketCounts = ResetCounts(ConstructBuckets(configBuckets), EmptyMap)
        /\ quantiles = EmptyMap
        /\ sum = Num(0)
        /\ count = 0
        /\ call = NewCall(NoError)

\* a Summary constructor that takes the empty quantile list
InitSummaryAcceptsEmpty ==
    \E configQuantiles \in SeqsUpTo(QuantileChoices, MaxQuantiles) :
        /\ type = "summary"
        /\ buckets = <<>>
        /\ bucketCounts = EmptyMap
        /\ quantiles = ConstructQuantiles(configQuantiles)
        /\ sum = Num(0)
        /\ count = 0
        /\ call = NewCall(NoError)

\* new Summary({name, quantiles, calculate}); an empty list throws, and no
\* object exists to be called
InitSummary ==
    \E configQuantiles \in SeqsUpTo(QuantileChoices, MaxQuantiles) :
        /\ type = "summary"
        /\ buckets = <<>>
        /\ bucketCounts = EmptyMap
        /\ quantiles = ConstructQuantiles(configQuantiles)
        /\ sum = Num(0)
        /\ count = 0
        /\ call = NewCall(IF Len(configQuantiles) = 0 THEN NoQuantile ELSE NoError)

\* the fields a Counter, Gauge or Untyped does not have
NoObservations ==
    /\ buckets = <<>>
    /\ bucketCounts = EmptyMap
    /\ quantiles = EmptyMap
    /\ sum = Num(0)
    /\ count = 0
    /\ call = NewCall(NoError)

\* a Histogram or a Summary named 'm', without description and labels
Init ==
    /\ InitHistogram \/ InitSummary
    /\ observed = <<>>
    /\ direct = FALSE
    /\ name = ConstructName(<<"m">>)
    /\ description = NoDescription
    /\ labels = <<>>
    /\ reader = <<>>
    /\ value = <<Undefined, Undefined>>
    /\ out = NoOutput
    /\ NoEnvironment /\ NoCleanText /\ NoConcat

\* the object was constructed
Constructed == ~(call.op = "new" /\ call.err # NoError)

\* --------------------------------------------------------------- actions
\* assign the outcome r of the call op(arg)
Apply(op, arg, r) ==
    /\ bucketCounts' = r.bucketCounts
    /\ quantiles' = r.quantiles
    /\ sum' = r.sum
    /\ count' = r.count
    /\ call' = [op |-> op, arg |-> arg, err |-> r.err, pre |-> count]
    /\ UNCHANGED <<type, buckets>>
    /\ UNCHANGED <<rvars, evars, tvars, cvars>>

HistogramObserve(v) ==
    /\ type = "histogram"
    /\ InvalidValue(v) \/ Len(observed) < MaxObs
    /\ Apply("observe", v, HistogramObserveResult(v))
    /\ observed' = IF InvalidValue(v) THEN observed ELSE Append(observed, v)
    /\ UNCHANGED direct

HistogramPush(v) ==
    /\ type = "histogram"
    /\ Len(observed) < MaxObs
    /\ Apply("push", v, HistogramPushResult(v))
    /\ observed' = Append(observed, v)
    /\ direct' = TRUE

HistogramReset ==
    /\ type = "histogram"
    /\ Apply("reset", Undefined, HistogramResetResult)
    /\ observed' = <<>>
    /\ UNCHANGED direct

SummaryObserve(v) ==
    /\ type = "summary"
    /\ Constructed
    /\ InvalidValue(v) \/ Len(observed) < MaxObs
    /\ Apply("observe", v, SummaryObserveResult(v))
    /\ observed' = IF InvalidValue(v) THEN observed ELSE Append(observed, v)
    /\ UNCHANGED direct

SummaryPush(v) ==
    /\ type = "summary"
    /\ Constructed
    /\ Len(observed) < MaxObs
    /\ Apply("push", v, SummaryPushResult(v))
    /\ observed' = Append(observed, v)
    /\ direct' = TRUE

Next ==
    \/ \E v \in Values : HistogramObserve(v)
    \/ \E v \in Values : HistogramPush(v)
    \/ HistogramReset
    \/ \E v \in Values : SummaryObserve(v)
    \/ \E v \in Values : SummaryPush(v)

Spec == Init /\ [][Next]_vars

\* ============================================================== rendering
\* the raw names handed to the constructors
RawNames == {<<"m">>, <<"a", "-", "b">>, <<"-">>}

\* config.description: absent, '' or a text
Descriptions ==
    {NoDescription, [present |-> TRUE, text |-> ""], [present |-> TRUE, text |-> "help"]}

\* config.labels: absent (or {}), or two default labels
LabelChoices == {<<>>, << <<"a", "x">>, <<"b", "y">> >>}

\* the explicit timestamp of a sample
Timestamp == Num(7)

\* the entries a reader may return: the four documented shapes, arrays of
\* length 0, 1 and 4, a string and an object
EntryChoices ==
    {NumberEntry(Num(1)),
     ArrayEntry(<<ValElem(Num(2)), ValElem(Timestamp)>>),
     ArrayEntry(<<ValElem(Num(3)), LabelsElem(<< <<"a", "z">> >>)>>),
     ArrayEntry(<<ValElem(Num(3)), LabelsElem(<< <<"c", "w">> >>)>>),
     ArrayEntry(<<ValElem(Num(4)), LabelsElem(<< <<"c", "w">>, <<"a", "z">> >>), ValElem(Timestamp)>>),
     ArrayEntry(<<>>),
     ArrayEntry(<<ValElem(Num(1))>>),
     ArrayEntry(<<ValElem(Num(4)), LabelsElem(<< <<"a", "z">> >>), ValElem(Timestamp), ValElem(Num(1))>>),
     StringEntry,
     ObjectEntry}

Times == 1..MaxNow

\* new Counter({...}) / new Gauge({...})
InitValueMetric ==
    /\ type \in {"counter", "gauge"}
    /\ reader \in SeqsUpTo(EntryChoices, MaxEntries)
    /\ labels \in LabelChoices
    /\ value = <<Undefined, Undefined>>
    /\ NoObservations

\* new Untyped({...}): config.value is absent, a number or a pair
InitUntyped ==
    /\ type = "untyped"
    /\ reader = <<>>
    /\ labels \in LabelChoices
    /\ \/ \E now \in Times : value = <<Num(0), Num(now)>>
       \/ \E now \in Times : value = <<Num(1), Num(now)>>
       \/ value = <<Num(1), Timestamp>>
    /\ NoObservations

\* the constructor of any of the five kinds, on any name and description
InitRender ==
    /\ \E raw \in RawNames : name = ConstructName(raw)
    /\ description \in Descriptions
    /\ \/ InitValueMetric
       \/ InitUntyped
       \/ InitHistogram /\ labels \in LabelChoices /\ reader = <<>>
                        /\ value = <<Undefined, Undefined>>
       \/ InitSummary /\ labels = <<>> /\ reader = <<>>
                      /\ value = <<Undefined, Undefined>>
    /\ observed = <<>>
    /\ direct = FALSE
    /\ out = NoOutput
    /\ NoEnvironment /\ NoCleanText /\ NoConcat

\* the calls of config.reader in one stringify(): valueString calls
\* _reader once, which calls config.reader once; the other kinds have none
ReaderCalls == IF type \in {"counter", "gauge"} THEN 1 ELSE 0

\* await metric.stringify(), Date.now() reading now
Stringify(now) ==
    /\ Constructed
    /\ out' = StringifyResult(now)
    /\ call' = [op |-> "stringify", arg |-> Num(now),
                err |-> StringifyResult(now).err, pre |-> count]
    /\ UNCHANGED <<type, buckets, bucketCounts, quantiles, sum, count, observed, direct>>
    /\ reads' = ReaderCalls
    /\ UNCHANGED <<name, description, labels, reader, value>>
    /\ UNCHANGED <<hits, console, tvars, cvars>>

\* Untyped.set(value): a number, stamped with Date.now(), or a pair
UntypedSet(isArray, v, now) ==
    /\ type = "untyped"
    /\ value' = IF isArray THEN v ELSE <<v[1], Num(now)>>
    /\ call' = [op |-> "set", arg |-> v[1], err |-> NoError, pre |-> count]
    /\ UNCHANGED <<type, buckets, bucketCounts, quantiles, sum, count, observed, direct>>
    /\ UNCHANGED <<name, description, labels, reader, out>>
    /\ UNCHANGED <<evars, tvars, cvars>>

NextRender ==
    \/ \E now \in Times : Stringify(now)
    \/ \E now \in Times : UntypedSet(FALSE, <<Num(2), Undefined>>, now)
    \/ \E now \in Times : UntypedSet(TRUE, <<Num(2), Timestamp>>, now)

SpecRender == InitRender /\ [][NextRender]_vars

\* ---------------------------------------------- claims about rendering
\* the four accepted shapes of a reader entry
IsBareNumber(e) == e.k = "number"
IsValueTimestamp(e) ==
    e.k = "array" /\ Len(e.items) = 2 /\ e.items[2].t = "val" /\ e.items[2].v.t = "num"
IsValueLabels(e) ==
    e.k = "array" /\ Len(e.items) = 2 /\ e.items[2].t = "labels"
IsValueLabelsTimestamp(e) == e.k = "array" /\ Len(e.items) = 3
AcceptedShape(e) ==
    IsBareNumber(e) \/ IsValueTimestamp(e) \/ IsValueLabels(e) \/ IsValueLabelsTimestamp(e)

\* a stringify of a Counter or Gauge has just settled
ValueMetricRendered == type \in {"counter", "gauge"} /\ call.op = "stringify"

\* the sample lines of a rendered text, in order
SampleLines(text) == SelectSeq(text, LAMBDA l : l.k = "sample")

\* the label object of a normalized sample
SampleLabels(v) == IF At(v, 2).t = "labels" THEN At(v, 2).l ELSE <<>>

\* C7: the value normalizer maps each reader entry of an accepted shape to
\* exactly one sample, in reader order: v gives (v, {}, now), [v, t] gives
\* (v, {}, t), [v, labels] gives (v, labels, now), [v, labels, t] is passed
\* through unchanged.
C7_NormalizerShapes ==
    (ValueMetricRendered /\ call.err = NoError) =>
        /\ Len(out.values) = Len(reader)
        /\ Len(SampleLines(out.text)) = Len(reader)
        /\ \A i \in 1..Len(reader) :
            LET e == reader[i] IN
            /\ IsBareNumber(e) =>
                 out.values[i] = <<ValElem(e.v), LabelsElem(<<>>), ValElem(call.arg)>>
            /\ IsValueTimestamp(e) =>
                 out.values[i] = <<e.items[1], LabelsElem(<<>>), e.items[2]>>
            /\ IsValueLabels(e) =>
                 out.values[i] = <<e.items[1], e.items[2], ValElem(call.arg)>>
            /\ IsValueLabelsTimestamp(e) => out.values[i] = e.items

\* C7 witness: a render of [v, t] followed by [v, labels]
C7_Witness ==
    /\ ValueMetricRendered /\ call.err = NoError
    /\ Len(reader) = 2
    /\ IsValueTimestamp(reader[1]) /\ IsValueLabels(reader[2])
    /\ out.values[2][3] = ValElem(call.arg)

\* C8: a reader entry that matches none of the four accepted shapes makes
\* the render of the Counter or Gauge fail with 'unexpected value format',
\* and no text is produced.
C8_OtherShapesRejected ==
    (ValueMetricRendered /\ \E i \in 1..Len(reader) : ~AcceptedShape(reader[i])) =>
        /\ call.err = UnexpectedValueFormat
        /\ out.text = <<>>

\* C9: in every Counter/Gauge sample line the label set is the union of the
\* default labels and the sample's labels; on a key of both the sample's
\* value is rendered; default keys absent from the sample are kept.
C9_SampleLabelsOverrideDefaults ==
    (ValueMetricRendered /\ call.err = NoError) =>
        \A i \in 1..Len(out.values) :
            LET line == SampleLines(out.text)[i]
                own == SampleLabels(out.values[i])
            IN  /\ Keys(line.labels) = Keys(labels) \cup Keys(own)
                /\ Len(line.labels) = Cardinality(Keys(line.labels))
                /\ \A k \in Keys(own) : Get(line.labels, k) = Get(own, k)
                /\ \A k \in Keys(labels) \ Keys(own) :
                       Get(line.labels, k) = Get(labels, k)

\* C9 witness: a sample whose label a collides with a default label, next
\* to a default label b the sample does not have
C9_Witness ==
    /\ ValueMetricRendered /\ call.err = NoError
    /\ Keys(labels) = {"a", "b"}
    /\ \E i \in 1..Len(out.values) :
          /\ "a" \in Keys(SampleLabels(out.values[i]))
          /\ Get(SampleLabels(out.values[i]), "a") # Get(labels, "a")
          /\ Get(SampleLines(out.text)[i].labels, "b") = Get(labels, "b")

\* a stringify of any metric has just settled with a text
Rendered == call.op = "stringify" /\ call.err = NoError

HasLine(k) == \E i \in 1..Len(out.text) : out.text[i].k = k

\* a description was given (and is not the empty string)
DescriptionPresent == description.present /\ description.text # ""

\* '# TYPE <name> <kind>' is in the header exactly when the kind is not
\* untyped
TypeLineIffTyped ==
    /\ HasLine("type") <=> type # "untyped"
    /\ \A i \in 1..Len(out.text) :
          out.text[i].k = "type" => out.text[i].name = name /\ out.text[i].text = type

fields == <<buckets, bucketCounts, quantiles, sum, count>>

\* the outcome of the step just taken, as the *Result operators give it
Outcome ==
    [err |-> call'.err, bucketCounts |-> bucketCounts', quantiles |-> quantiles',
     sum |-> sum', count |-> count']

\* v <= t over the extended reals
AtMost(v, t) ==
    \/ t.t = "inf" /\ v.t \in {"num", "inf", "ninf"}
    \/ v.t = "ninf" /\ t.t \in {"num", "inf", "ninf"}
    \/ v.t = "num" /\ t.t = "num" /\ v.n <= t.n

RECURSIVE SumOf(_)
SumOf(s) == IF s = <<>> THEN Num(0) ELSE JsAdd(SumOf(SubSeq(s, 1, Len(s) - 1)), s[Len(s)])

\* C1: for every Histogram, whatever bucket list the constructor was given,
\* after any sequence of observe and reset calls the counter of the +Infinity
\* bucket equals count, and the bucket counters are non-decreasing in
\* ascending threshold order.
C1_InfBucketIsCountAndMonotone ==
    (type = "histogram" /\ ~direct) =>
        /\ bucketCounts[PosInf] = count
        /\ \A i, j \in 1..Len(buckets) :
               i <= j => bucketCounts[buckets[i]] <= bucketCounts[buckets[j]]

\* C2: Histogram buckets are cumulative: after the accepted calls
\* observe(v1..vn) since construction or the last reset, the counter of every
\* threshold t is the number of vi <= t, sum is v1+...+vn and count is n.
C2_BucketsCumulative ==
    (type = "histogram" /\ ~direct) =>
        /\ \A b \in Range(buckets) :
               bucketCounts[b] =
                   Cardinality({i \in 1..Len(observed) : AtMost(observed[i], b)})
        /\ sum = SumOf(observed)
        /\ count = Len(observed)

\* C3: observe(NaN) and observe of a non-numeric value, on a Histogram or a
\* Summary, raise the invalid-value error and leave bucket counts, quantile
\* estimates, sum and count as they were.
C3_ObserveInvalidRejected ==
    [][(call'.op = "observe" /\ call'.arg \in {NaN, Str}) =>
           /\ call'.err = IF type = "histogram" THEN InvalidHistogramValue
                          ELSE InvalidSummaryValue
           /\ UNCHANGED fields]_vars

\* C3 witness: observe(NaN) was rejected on a histogram holding observations
C3_Witness ==
    /\ type = "histogram"
    /\ call.op = "observe" /\ call.arg = NaN /\ call.err = InvalidHistogramValue
    /\ count > 0

\* C4: push is an alias of observe on Histogram and Summary: every push(v)
\* has the outcome observe(v) has in the same state (the same error, or the
\* same state update).
C4_PushIsAliasOfObserve ==
    [][call'.op = "push" =>
           Outcome = IF type = "histogram" THEN HistogramObserveResult(call'.arg)
                     ELSE SummaryObserveResult(call'.arg)]_vars

\* C5: observe rejects every non-finite value, +Infinity and -Infinity
\* included, with the invalid-value error, so that a finite sum stays finite
\* over observe calls.
C5_ObserveRejectsNonFinite ==
    [][call'.op = "observe" =>
           /\ ~IsFinite(call'.arg) => (call'.err # NoError /\ UNCHANGED fields)
           /\ IsFinite(sum) => IsFinite(sum')]_vars

\* C6: after Histogram.reset() every bucket counter, sum and count are zero
\* whatever was observed before; the thresholds are untouched; a second
\* reset changes nothing.
C6_ResetZeroesAll ==
    [][call'.op = "reset" =>
           /\ call'.err = NoError
           /\ DOMAIN bucketCounts' = Range(buckets)
           /\ \A b \in DOMAIN bucketCounts' : bucketCounts'[b] = 0
           /\ sum' = Num(0)
           /\ count' = 0
           /\ buckets' = buckets
           /\ call.op = "reset" => UNCHANGED fields]_vars

\* C6 witness: reset has run on a histogram that held observations in a
\* finite and in the +Infinity bucket
C6_Witness ==
    /\ call.op = "reset" /\ call.pre > 1
    /\ Len(buckets) > 1
    /\ count = 0 /\ sum = Num(0)

\* C20: for a Summary, every configured quantile's estimate is 0 before the
\* first observation; after the accepted observe(v1), ..., observe(vn) the
\* sum is v1 + ... + vn, the count is n and the estimate of every
\* configured quantile q is calculate(vn, q).
C20_SummaryKeepsLastEstimate ==
    (type = "summary" /\ Constructed /\ ~direct) =>
        /\ sum = SumOf(observed)
        /\ count = Len(observed)
        /\ \A q \in DOMAIN quantiles :
              quantiles[q] = IF observed = <<>> THEN Num(0)
                             ELSE Calculate(observed[Len(observed)], q)

\* two quantiles, and two different finite values observed
C20_Witness ==
    /\ type = "summary" /\ ~direct
    /\ call.op = "observe" /\ call.err = NoError
    /\ DOMAIN quantiles = QuantileChoices
    /\ Len(observed) = 2
    /\ observed[1] = Num(2) /\ observed[2] = Num(1)
    /\ quantiles[50] = Num(50)

\* C21: constructing a Summary on the empty quantile list fails, so every
\* Summary that exists has a configured quantile, and no call changes the
\* set of configured quantiles.
C21_QuantilesNonEmptyAndConstant ==
    /\ [](type = "summary" =>
            /\ DOMAIN quantiles = {} => call = NewCall(NoQuantile)
            /\ Constructed => DOMAIN quantiles # {})
    /\ [][type = "summary" => DOMAIN quantiles' = DOMAIN quantiles]_vars

\* a Summary of one quantile after MaxObs accepted observations and a
\* rejected one
C21_Witness ==
    /\ type = "summary" /\ ~direct
    /\ call.op = "observe" /\ call.err = InvalidSummaryValue
    /\ DOMAIN quantiles = {90}
    /\ Len(observed) = MaxObs

\* ========================================================= Metric.concat
\* Text is a sequence of tokens: a token is one whitespace character or a
\* word without whitespace.
IsSpace(c) == c \in {" ", "\n"}

\* '' contributes nothing to a text
Word(w) == IF w = "" THEN <<>> ELSE <<w>>

\* the key="value" pairs joined with ','
RECURSIVE PairsChars(_)
PairsChars(m) ==
    IF m = <<>> THEN <<>>
    ELSE <<m[1][1], "=", "\"", m[1][2], "\"">>
         \o (IF Len(m) > 1 THEN <<",">> ELSE <<>>) \o PairsChars(Tail(m))

\* Metric.labelString as text
LabelChars(m) == IF m = <<>> THEN <<>> ELSE <<"{">> \o PairsChars(m) \o <<"}">>

\* the text of one line, its newline included
LineChars(l) ==
    CASE l.k = "help" -> <<"# HELP", " ">> \o l.name \o <<" ", l.text, "\n">>
      [] l.k = "type" -> <<"# TYPE", " ">> \o l.name \o <<" ", l.text, "\n">>
      [] l.k = "sample" ->
            l.name \o Word(l.suffix) \o LabelChars(l.labels) \o <<" ", l.value>>
            \o (IF l.ts = "" THEN <<>> ELSE <<" ", l.ts>>) \o <<"\n">>
      [] OTHER -> <<"\n">>

\* the text of the lines from the i-th on
RECURSIVE TextFrom(_, _)
TextFrom(ls, i) ==
    IF i > Len(ls) THEN <<>> ELSE LineChars(ls[i]) \o TextFrom(ls, i + 1)

\* the text of a sequence of lines
TextChars(ls) == TextFrom(ls, 1)

\* String.prototype.trimEnd
RECURSIVE TrimEnd(_)
TrimEnd(s) ==
    IF s = <<>> THEN s
    ELSE IF IsSpace(s[Len(s)]) THEN TrimEnd(SubSeq(s, 1, Len(s) - 1)) ELSE s

\* results.join('\n')
RECURSIVE Join(_)
Join(texts) ==
    IF texts = <<>> THEN <<>>
    ELSE IF Len(texts) = 1 THEN texts[1]
    ELSE texts[1] \o <<"\n">> \o Join(Tail(texts))

\* the arguments of a call: a format string, or a metric built without
\* description and default labels (an Untyped holds [1, Timestamp])
FormatArg(f) ==
    [k |-> "format", format |-> f, type |-> "", name |-> <<>>,
     reader |-> <<>>, fails |-> FALSE]
MetricArg(t, nm, rd, fails) ==
    [k |-> "metric", format |-> "", type |-> t, name |-> ConstructName(nm),
     reader |-> rd, fails |-> fails]

ReaderFailed == "reader failed"

\* one line of the metric m
LineOf(m, k, text, lbls, val, ts) ==
    [k |-> k, name |-> m.name, suffix |-> "", text |-> text,
     labels |-> LabelString(lbls), value |-> val, ts |-> ts]

\* Metric.generateHeader of m: no description, so no HELP
HeaderOf(m) ==
    IF m.type # "untyped" THEN <<LineOf(m, "type", m.type, <<>>, "", "")>> ELSE <<>>

\* ValueMetric._reader of m: the reader throws or rejects, or an entry is
\* refused, or every entry is normalized
ReadValuesOf(m, now) ==
    IF m.fails THEN [err |-> ReaderFailed, values |-> <<>>]
    ELSE IF \E i \in 1..Len(m.reader) : Normalize(m.reader[i], now).err # NoError
    THEN [err |-> UnexpectedValueFormat, values |-> <<>>]
    ELSE [err |-> NoError,
          values |-> [i \in 1..Len(m.reader) |-> Normalize(m.reader[i], now).val]]

\* ValueMetric.valueString of m
ValueStringOf(m, values) ==
    [i \in 1..Len(values) |->
        LineOf(m, "sample", "", MergeLabels(<<>>, At(values[i], 2)),
               ElemString(At(values[i], 1)), ElemString(At(values[i], 3)))]

\* m.stringify() settled, now = Date.now(): the error, or the text
StringifyOf(m, now) ==
    IF m.type = "untyped"
    THEN [err |-> NoError,
          text |-> TextChars(<<LineOf(m, "sample", "", <<>>, JsString(Num(1)),
                                    JsString(Timestamp)), BlankLine>>)]
    ELSE IF ReadValuesOf(m, now).err # NoError
    THEN [err |-> ReadValuesOf(m, now).err, text |-> <<>>]
    ELSE [err |-> NoError,
          text |-> TextChars(HeaderOf(m) \o ValueStringOf(m, ReadValuesOf(m, now).values)
                             \o <<BlankLine>>)]

\* the metrics a call may be handed
CounterA == MetricArg("counter", <<"a">>, <<NumberEntry(Num(1))>>, FALSE)
GaugeB ==
    MetricArg("gauge", <<"b">>,
              <<ArrayEntry(<<ValElem(Num(2)), LabelsElem(<< <<"k", "v">> >>)>>)>>, FALSE)
UntypedU == MetricArg("untyped", <<"u">>, <<>>, FALSE)
\* a reader that throws or rejects
CounterF == MetricArg("counter", <<"f">>, <<>>, TRUE)
\* a reader that returns a string entry
GaugeG == MetricArg("gauge", <<"g">>, <<StringEntry>>, FALSE)
MetricPool == {CounterA, GaugeB, UntypedU, CounterF, GaugeG}

\* the argument lists: with a format string first, or metrics only
ArgLists ==
    {f \o ms : f \in {<<>>, <<FormatArg("prometheus")>>, <<FormatArg("openmetrics")>>},
               ms \in SeqsUpTo(MetricPool, MaxMetrics)}

\* format = 'prometheus' binds the first argument; the default applies to
\* a call without arguments only
FormatOf(a) == IF a = <<>> THEN FormatArg("prometheus") ELSE a[1]
\* ...metrics binds the arguments after the first
MetricsOf(a) == IF a = <<>> THEN <<>> ELSE Tail(a)

\* format === 'openmetrics'
IsOpenMetrics(f) == f.k = "format" /\ f.format = "openmetrics"

\* what stringify() of each metric settles to at each time (0: at the call)
Renders == [m \in MetricPool, now \in 0..MaxNow |-> StringifyOf(m, now)]

\* the promise of one stringify()
Pending == [state |-> "pending", err |-> NoError, text |-> <<>>, at |-> 0]
NotStarted == [state |-> "none", err |-> NoError, text |-> <<>>, at |-> 0]
Settled(r, now) ==
    [state |-> IF r.err = NoError THEN "resolved" ELSE "rejected",
     err |-> r.err, text |-> r.text, at |-> now]

\* the Histogram the state holds, as an argument of concat
HistogramM == MetricArg("histogram", <<"m">>, <<>>, FALSE)

\* Histogram.stringify of the Histogram the state holds: no await, the text
\* is built from the fields as they are at the call
HistogramRender ==
    [err |-> NoError, text |-> TextChars(GenerateHeader \o BucketString)]

\* stringify() called on metric m: Untyped.stringify and Histogram.stringify
\* await nothing and return a settled promise, ValueMetric.stringify has
\* called its reader and awaits it
Started(m) ==
    IF m.type = "untyped" THEN Settled(Renders[m, 0], 0)
    ELSE IF m.type = "histogram" THEN Settled(HistogramRender, 0)
    ELSE Pending

\* a map that calls stringify() on the first metric only
StartFirstOnly(ms) ==
    [i \in 1..Len(ms) |-> IF i = 1 THEN Started(ms[i]) ELSE NotStarted]

\* metrics.map((m) => m.stringify())
StartStringify(ms) == [i \in 1..Len(ms) |-> Started(ms[i])]

\* the indexes of the promises that are settled, ascending from i
RECURSIVE SettledFrom(_, _)
SettledFrom(ps, i) ==
    IF i > Len(ps) THEN <<>>
    ELSE (IF ps[i].state \in {"resolved", "rejected"} THEN <<i>> ELSE <<>>)
         \o SettledFrom(ps, i + 1)

\* the first promise to have rejected
FirstRejected(ps, ord) ==
    ord[CHOOSE j \in 1..Len(ord) :
            /\ ps[ord[j]].state = "rejected"
            /\ \A h \in 1..(j - 1) : ps[ord[h]].state # "rejected"]

\* a Promise.all that yields the values in the order of settlement
PromiseAllInSettlementOrder(ps, ord) ==
    IF \E i \in 1..Len(ps) : ps[i].state = "rejected"
    THEN [state |-> "rejected", err |-> ps[FirstRejected(ps, ord)].err, values |-> <<>>]
    ELSE IF \A i \in 1..Len(ps) : ps[i].state = "resolved"
    THEN [state |-> "resolved", err |-> NoError,
          values |-> [j \in 1..Len(ord) |-> ps[ord[j]].text]]
    ELSE [state |-> "pending", err |-> NoError, values |-> <<>>]

\* a Promise.all that takes the empty text for a rejected promise
PromiseAllSettled(ps, ord) ==
    IF \A i \in 1..Len(ps) : ps[i].state \in {"resolved", "rejected"}
    THEN [state |-> "resolved", err |-> NoError,
          values |-> [i \in 1..Len(ps) |-> ps[i].text]]
    ELSE [state |-> "pending", err |-> NoError, values |-> <<>>]

\* Promise.all(ps): rejected with the first rejection, else resolved with
\* the values in the order of ps once all are resolved
PromiseAll(ps, ord) ==
    IF \E i \in 1..Len(ps) : ps[i].state = "rejected"
    THEN [state |-> "rejected", err |-> ps[FirstRejected(ps, ord)].err, values |-> <<>>]
    ELSE IF \A i \in 1..Len(ps) : ps[i].state = "resolved"
    THEN [state |-> "resolved", err |-> NoError,
          values |-> [i \in 1..Len(ps) |-> ps[i].text]]
    ELSE [state |-> "pending", err |-> NoError, values |-> <<>>]

\* an output that is not trimmed before '# EOF'
ConcatOutputUntrimmed(f, results) ==
    IF IsOpenMetrics(f) THEN Join(results) \o <<"\n", "# EOF">> ELSE Join(results)

\* the body of concat after the await
ConcatOutput(f, results) ==
    IF IsOpenMetrics(f) THEN TrimEnd(Join(results)) \o <<"\n", "# EOF">>
    ELSE Join(results)

\* Metric.concat(...a) up to its await
ConcatCall(a) ==
    /\ result.state = "none"
    /\ args' = a
    /\ promises' = StartStringify(MetricsOf(a))
    /\ order' = SettledFrom(StartStringify(MetricsOf(a)), 1)
    /\ result' = [state |-> "pending", err |-> NoError, text |-> <<>>]
    /\ before' = observed
    /\ UNCHANGED <<hvars, rvars, evars, tvars>>

\* the reader of the i-th metric completes and its stringify() settles,
\* now = Date.now()
ReaderSettles(i, now) ==
    /\ i \in DOMAIN promises
    /\ promises[i].state = "pending"
    /\ promises' = [promises EXCEPT
                       ![i] = Settled(Renders[MetricsOf(args)[i], now], now)]
    /\ order' = Append(order, i)
    /\ UNCHANGED <<args, result, before>>
    /\ UNCHANGED <<hvars, rvars, evars, tvars>>

\* Promise.all settles and concat returns or throws
ConcatSettles ==
    /\ result.state = "pending"
    /\ PromiseAll(promises, order).state # "pending"
    /\ result' =
          IF PromiseAll(promises, order).state = "rejected"
          THEN [state |-> "rejected", err |-> PromiseAll(promises, order).err,
                text |-> <<>>]
          ELSE [state |-> "resolved", err |-> NoError,
                text |-> ConcatOutput(FormatOf(args),
                                      PromiseAll(promises, order).values)]
    /\ UNCHANGED <<args, promises, order, before>>
    /\ UNCHANGED <<hvars, rvars, evars, tvars>>

\* an Untyped named 'm' and no call of concat yet
InitConcat ==
    /\ type = "untyped"
    /\ name = ConstructName(<<"m">>)
    /\ description = NoDescription
    /\ labels = <<>>
    /\ reader = <<>>
    /\ value = <<Num(1), Timestamp>>
    /\ NoObservations
    /\ observed = <<>>
    /\ direct = FALSE
    /\ out = NoOutput
    /\ NoEnvironment /\ NoCleanText /\ NoConcat

NextConcat ==
    \/ \E a \in ArgLists : ConcatCall(a)
    \/ \E i \in 1..MaxMetrics, now \in Times : ReaderSettles(i, now)
    \/ ConcatSettles

SpecConcat == InitConcat /\ [][NextConcat]_vars

\* ------------------------------------------------- claims about concat
\* concat was called with the format string f first
CalledWithFormat(f) == args # <<>> /\ args[1] = FormatArg(f)
\* concat was called with metrics only
CalledWithoutFormat == args # <<>> /\ \A i \in DOMAIN args : args[i].k = "metric"
\* the text the j-th argument's stringify() yields when it settles at time t
TextOfArg(j, t) == StringifyOf(args[j], t).text
\* some stringify() rejected
SomeRejected == \E i \in DOMAIN promises : promises[i].state = "rejected"

\* C11: for format 'prometheus', what concat(format, m1..mn) returns is
\* stringify(m1), ..., stringify(mn) joined with one newline, in argument
\* order, whatever the order in which the readers completed.
C11_PrometheusJoinsInArgumentOrder ==
    (CalledWithFormat("prometheus") /\ result.state = "resolved") =>
        /\ Len(promises) = Len(args) - 1
        /\ result.text =
              Join([i \in 1..(Len(args) - 1) |-> TextOfArg(i + 1, promises[i].at)])

\* two readers completed in the reverse of the argument order, at
\* different times, and concat returned
C11_Witness ==
    /\ CalledWithFormat("prometheus") /\ result.state = "resolved"
    /\ order = <<2, 1>>
    /\ promises[1].at # promises[2].at
    /\ promises[1].text # promises[2].text

\* C12: concat starts the render of every metric before it waits for any:
\* from the call on every metric's render is started, a pending reader can
\* complete whatever the state of the others, and a pending reader holds
\* back the return of concat only.
C12_EveryRenderStarted ==
    result.state # "none" =>
        /\ Len(promises) = Len(MetricsOf(args))
        /\ \A i \in DOMAIN promises :
              /\ promises[i].state # "none"
              /\ promises[i].state = "pending" =>
                    \A now \in Times : ENABLED ReaderSettles(i, now)
        /\ result.state = "resolved" =>
              \A i \in DOMAIN promises : promises[i].state = "resolved"

\* the first reader has not completed, the second has, concat is waiting
C12_Witness ==
    /\ result.state = "pending"
    /\ Len(promises) = 2
    /\ promises[1].state = "pending"
    /\ promises[2].state = "resolved" /\ promises[2].at > 0

\* C13: the text concat returns for format 'openmetrics' ends with '# EOF',
\* a newline is just before it, and what is before that newline does not
\* end in whitespace; the empty list of metrics included.
C13_OpenMetricsEndsWithEof ==
    (CalledWithFormat("openmetrics") /\ result.state = "resolved") =>
        LET t == result.text
            n == Len(result.text)
        IN  /\ n >= 2
            /\ t[n] = "# EOF"
            /\ t[n - 1] = "\n"
            /\ n > 2 => ~IsSpace(t[n - 2])

\* an OpenMetrics document of two metrics
C13_Witness ==
    /\ CalledWithFormat("openmetrics") /\ result.state = "resolved"
    /\ Len(promises) = 2
    /\ Len(result.text) > 2

\* C14: once the render of a metric has failed, concat never returns a
\* text: it fails, with the error of a failed render, in either format.
C14_RenderFailureFailsConcat ==
    /\ SomeRejected =>
          /\ result.state # "resolved"
          /\ result.text = <<>>
          /\ result.state = "rejected" =>
                result.err \in {promises[i].err :
                                   i \in {j \in DOMAIN promises :
                                             promises[j].state = "rejected"}}
    /\ result.state = "rejected" => SomeRejected

\* an OpenMetrics call with one render resolved and one refused for its
\* reader's output has failed
C14_Witness ==
    /\ CalledWithFormat("openmetrics")
    /\ result.state = "rejected" /\ result.err = UnexpectedValueFormat
    /\ \E i \in DOMAIN promises : promises[i].state = "resolved"

\* C15: concat called with metrics only returns the Prometheus document
\* with the rendering of every metric passed, the first included.
C15_DefaultFormatRendersEveryArgument ==
    (CalledWithoutFormat /\ result.state = "resolved") =>
        \E times \in [DOMAIN args -> 0..MaxNow] :
            result.text = Join([j \in DOMAIN args |-> TextOfArg(j, times[j])])

\* ====================================================== Metric.cleanText
\* the characters of a raw name: a letter, a digit, '_', '.', and the five
\* characters cleanText acts on
Letters == {"m"}
Digits == {"9"}
Alphabet == Letters \cup Digits \cup {"_", ".", "-", "/", " ", "(", ")"}

\* a string that is present
Present(s) == [present |-> TRUE, text |-> s]

\* the strings a caller may pass: absent, or up to MaxNameLen characters
OptionalStrings == {Absent} \cup {Present(s) : s \in SeqsUpTo(Alphabet, MaxNameLen)}

\* Metric.cleanText(input): input?.replaceAll(...) is undefined for undefined
MetricCleanText(x) == IF x.present THEN Present(CleanText(x.text)) ELSE x

\* this.name = Metric.cleanText(name) || '' on an optional raw name
ConstructNameOf(x) ==
    IF MetricCleanText(x).present THEN MetricCleanText(x).text ELSE <<>>

\* a metric constructed on any raw name, and a string to hand to cleanText
InitClean ==
    /\ \E raw \in OptionalStrings : name = ConstructNameOf(raw)
    /\ input \in OptionalStrings
    /\ cleaned = Absent
    /\ type = "untyped"
    /\ description = NoDescription
    /\ labels = <<>>
    /\ reader = <<>>
    /\ value = <<Num(1), Timestamp>>
    /\ NoObservations
    /\ observed = <<>>
    /\ direct = FALSE
    /\ out = NoOutput
    /\ NoEnvironment /\ NoConcat

\* cleaned = Metric.cleanText(input)
CleanTextCall ==
    /\ call.op = "new"
    /\ cleaned' = MetricCleanText(input)
    /\ call' = [op |-> "cleanText", arg |-> Undefined, err |-> NoError, pre |-> count]
    /\ UNCHANGED input
    /\ UNCHANGED <<type, buckets, bucketCounts, quantiles, sum, count, observed, direct>>
    /\ UNCHANGED <<rvars, evars, cvars>>

\* cleaned = Metric.cleanText(cleaned)
CleanTextAgain ==
    /\ call.op \in {"cleanText", "cleanTextAgain"}
    /\ cleaned' = MetricCleanText(cleaned)
    /\ call' = [op |-> "cleanTextAgain", arg |-> Undefined, err |-> NoError, pre |-> count]
    /\ UNCHANGED input
    /\ UNCHANGED <<type, buckets, bucketCounts, quantiles, sum, count, observed, direct>>
    /\ UNCHANGED <<rvars, evars, cvars>>

NextClean == CleanTextCall \/ CleanTextAgain

SpecClean == InitClean /\ [][NextClean]_vars

\* ----------------------------------------------- claims about cleanText
\* what the claim says of one character
CleanChar(c) ==
    IF c \in {"-", "(", ")"} THEN <<>>
    ELSE IF c \in {"/", " "} THEN <<"_">>
    ELSE <<c>>

\* the characters of s, each treated by CleanChar, from the i-th on
RECURSIVE CleanCharsFrom(_, _)
CleanCharsFrom(s, i) ==
    IF i > Len(s) THEN <<>> ELSE CleanChar(s[i]) \o CleanCharsFrom(s, i + 1)

\* C16: cleanText removes every '-', '(' and ')', replaces every '/' and
\* every space by '_', changes no other character, returns absent for
\* absent input, and cleaning the result again changes nothing.
C16_CleanTextMapsCharactersAndIsIdempotent ==
    call.op \in {"cleanText", "cleanTextAgain"} =>
        /\ input.present =>
              /\ cleaned.present
              /\ cleaned.text = CleanCharsFrom(input.text, 1)
        /\ ~input.present => ~cleaned.present

\* a string with a character to remove and one to replace was cleaned twice
C16_Witness ==
    /\ call.op = "cleanTextAgain"
    /\ input = Present(<<"(", "/">>)
    /\ cleaned = Present(<<"_">>)

\* the grammar [a-zA-Z_:][a-zA-Z0-9_:]*
LegalName(s) ==
    /\ s # <<>>
    /\ s[1] \in Letters \cup {"_", ":"}
    /\ \A i \in 1..Len(s) : s[i] \in Letters \cup Digits \cup {"_", ":"}

\* C17: the name of every constructed metric matches the grammar
\* [a-zA-Z_:][a-zA-Z0-9_:]*.
C17_NameMatchesGrammar == Constructed => LegalName(name)

\* ============================================= readers and Counter.inc
\* reader: () => [hits], a closure over the caller's variable
ReaderOf(h) == <<NumberEntry(Num(h))>>

\* the caller's variable takes the values 0..MaxHits
Hits == 0..MaxHits

\* inc(delta = 1): an omitted delta is 1
Deltas == {Undefined, Num(1), Num(2)}
DeltaOf(d) == IF d = Undefined THEN Num(1) ELSE d

IncWarning ==
    "Counter.inc() called, but Counter uses reader function. Increment must be handled externally. Delta: "

\* a Counter or Gauge named 'm' whose reader returns the caller's variable
InitReader ==
    /\ type \in {"counter", "gauge"}
    /\ name = ConstructName(<<"m">>)
    /\ description = NoDescription
    /\ labels = <<>>
    /\ reader = ReaderOf(0)
    /\ value = <<Undefined, Undefined>>
    /\ NoObservations
    /\ observed = <<>>
    /\ direct = FALSE
    /\ out = NoOutput
    /\ NoEnvironment /\ NoCleanText /\ NoConcat

\* the caller assigns its variable: the reader returns the new value from
\* now on
CallerSets(h) ==
    /\ hits' = h
    /\ reader' = ReaderOf(h)
    /\ call' = [op |-> "assign", arg |-> Num(h), err |-> NoError, pre |-> count]
    /\ UNCHANGED <<type, buckets, bucketCounts, quantiles, sum, count, observed, direct>>
    /\ UNCHANGED <<name, description, labels, value, out>>
    /\ UNCHANGED <<console, reads, tvars, cvars>>

\* an inc that adds delta to the value the reader returns
CounterIncAdds(delta) ==
    /\ type = "counter"
    /\ hits' = (hits + DeltaOf(delta).n) % (MaxHits + 1)
    /\ reader' = ReaderOf((hits + DeltaOf(delta).n) % (MaxHits + 1))
    /\ console' = <<IncWarning, JsString(DeltaOf(delta))>>
    /\ call' = [op |-> "inc", arg |-> delta, err |-> NoError, pre |-> count]
    /\ UNCHANGED <<type, buckets, bucketCounts, quantiles, sum, count, observed, direct>>
    /\ UNCHANGED <<name, description, labels, value, out>>
    /\ UNCHANGED <<reads, tvars, cvars>>

\* Counter.inc(delta): console.warn and nothing else
CounterInc(delta) ==
    /\ type = "counter"
    /\ console' = <<IncWarning, JsString(DeltaOf(delta))>>
    /\ call' = [op |-> "inc", arg |-> delta, err |-> NoError, pre |-> count]
    /\ UNCHANGED <<type, buckets, bucketCounts, quantiles, sum, count, observed, direct>>
    /\ UNCHANGED <<name, description, labels, reader, value, out>>
    /\ UNCHANGED <<hits, reads, tvars, cvars>>

NextReader ==
    \/ \E now \in Times : Stringify(now)
    \/ \E h \in Hits : CallerSets(h)
    \/ \E delta \in Deltas : CounterInc(delta)

SpecReader == InitReader /\ [][NextReader]_vars

\* ------------------------------------- claims about readers and inc
\* C18: Counter.inc(delta) never fails and changes nothing of the counter
\* nor of what its reader returns: a render after inc is the render there
\* would have been without it.
C18_IncChangesNothing ==
    [][call'.op = "inc" =>
          /\ call'.err = NoError
          /\ UNCHANGED <<type, fields, name, description, labels, value>>
          /\ UNCHANGED <<reader, hits, out, reads>>
          /\ \A now \in Times : StringifyResult(now)' = StringifyResult(now)]_vars

\* a render made after inc(2), the caller's variable being 1
C18_Witness ==
    /\ type = "counter"
    /\ call.op = "stringify" /\ call.err = NoError
    /\ console = <<IncWarning, "2">>
    /\ hits = 1
    /\ SampleLines(out.text)[1].value = "1"

\* C19: every stringify of a Counter or Gauge calls the reader once and
\* renders what the reader returns on that call: the sample shows the
\* current value of the state behind the reader, never an earlier one.
C19_RenderReadsCurrentValue ==
    ValueMetricRendered =>
        /\ reads = 1
        /\ out.err = NoError
        /\ Len(SampleLines(out.text)) = 1
        /\ SampleLines(out.text)[1].value = ToString(hits)
        /\ SampleLines(out.text)[1].ts = JsString(call.arg)

\* a render made after the caller's variable went from 0 to MaxHits
C19_Witness ==
    /\ ValueMetricRendered
    /\ hits = MaxHits
    /\ reads = 1
    /\ SampleLines(out.text)[1].value = ToString(MaxHits)

\* ================================== a Histogram observed during a concat
\* the calls of concat on the Histogram and a Gauge, in either order
SnapshotArgLists ==
    {<<FormatArg(f)>> \o ms : f \in {"prometheus", "openmetrics"},
                              ms \in {<<HistogramM, GaugeB>>, <<GaugeB, HistogramM>>}}

\* the values observed while concat waits: under every finite threshold,
\* over every finite threshold, and NaN
SnapshotValues == {Num(1), Num(MaxNum + 1), NaN}

\* a Histogram named 'm' and no call of concat yet
InitSnapshot ==
    /\ InitHistogram
    /\ observed = <<>>
    /\ direct = FALSE
    /\ name = ConstructName(<<"m">>)
    /\ description = NoDescription
    /\ labels = <<>>
    /\ reader = <<>>
    /\ value = <<Undefined, Undefined>>
    /\ out = NoOutput
    /\ NoEnvironment /\ NoCleanText /\ NoConcat

NextSnapshot ==
    \/ \E v \in SnapshotValues : HistogramObserve(v)
    \/ HistogramReset
    \/ \E a \in SnapshotArgLists : ConcatCall(a)
    \/ \E i \in 1..MaxMetrics, now \in Times : ReaderSettles(i, now)
    \/ ConcatSettles

SpecSnapshot == InitSnapshot /\ [][NextSnapshot]_vars

\* ------------------------- claims about a Histogram observed during concat
\* the Histogram is among the metrics of the call
HistogramPassed == \E i \in DOMAIN promises : MetricsOf(args)[i] = HistogramM

\* the lines that describe the observations obs: for every threshold the
\* number of them at most the threshold, their sum and their number
LinesDescribing(obs) ==
    <<TypeLine>>
    \o [i \in 1..Len(buckets) |->
           SampleLine("_bucket",
                      << <<"le", IF buckets[i] = PosInf THEN "+Inf"
                                 ELSE JsString(buckets[i])>> >>,
                      ToString(Cardinality({j \in 1..Len(obs) : AtMost(obs[j], buckets[i])})),
                      "")]
    \o <<SampleLine("_sum", <<>>, JsString(SumOf(obs)), ""),
         SampleLine("_count", <<>>, ToString(Len(obs)), "")>>

\* C22: the Histogram part of the text concat returns describes exactly the
\* observations accepted before concat was called, whatever observe and
\* reset calls were made while concat waited for the other metric's reader:
\* every bucket line, the +Inf line included, the _sum line and the _count
\* line are those of that one set of observations.
C22_HistogramPartIsSnapshotAtCall ==
    (result.state = "resolved" /\ HistogramPassed) =>
        result.text =
            ConcatOutput(FormatOf(args),
                         [i \in DOMAIN promises |->
                             IF MetricsOf(args)[i] = HistogramM
                             THEN TextChars(LinesDescribing(before))
                             ELSE promises[i].text])

=============================================================================
